---- MODULE Spec2Model ----
(***************************************************************************)
(* Model of the Ditto event pipeline (src/src/pipeline.ts, the later of    *)
(* the two versions in that file), the stats engine (src/src/stats.ts),    *)
(* the subscription store (src/src/subs.ts) and the filter matcher         *)
(* (src/src/filter.ts).                                                    *)
(*                                                                         *)
(* An event is a record [id, pubkey, kind, created_at, tags, content,     *)
(* sig]; ids are integers, pubkeys are strings, content is the parsed      *)
(* metadata [name, nip05], a tag is a tuple <<name, value>> or             *)
(* <<name, value, relay, marker>>.  sig is TRUE when the verification      *)
(* worker accepts the signature.                                           *)
(***************************************************************************)
EXTENDS Integers, Sequences, FiniteSets, TLC

VARIABLES
  events,        \* rows of the event store (set of event records)
  author_stats,  \* author_stats table: pubkey -> row, defined on the rows that exist
  event_stats,   \* event_stats table: event id -> row, defined on the rows that exist
  applied,       \* history: ids of the events whose stat queries are committed
  event_zaps,    \* event_zaps table (set of rows)
  author_search, \* author_search table: pubkey -> search
  pubkey_domains, \* pubkey_domains table: pubkey -> [domain, last_updated_at]
  encounters,    \* the LRU cache of pipeline.ts:277, least recently used first
  calls,         \* the handleEvent invocations under way or just ended, by slot
  ncalls,        \* number of times handleEvent was entered
  now,           \* the clock, in seconds
  store,         \* SubscriptionStore.#store: <<socket, id>> -> subscription object
  subObjs,       \* the Subscription objects ever created, by index
  batch,         \* stats engine runs: the stat diffs of a batch
  pending,       \* stats engine runs: indexes of batch not applied yet
  stats0,        \* stats engine runs: the tables before the batch
  hydrated       \* hydration runs: the events hydrated last, with their relations

vars == <<events, author_stats, event_stats, applied, event_zaps, author_search,
          pubkey_domains, encounters, calls, ncalls, now,
          store, subObjs, batch, pending, stats0, hydrated>>

-----------------------------------------------------------------------------
(* Bounds of the model *)

\* number of handleEvent invocations in one run (derived ones included)
MaxCalls == 2
\* handleEvent invocations that can be under way at once
MaxSlots == 2
\* capacity of the encounters cache in the model (1000 in the program)
LRUMax == 1
\* the clock starts here
Now0 == 100
\* the clock stops here
MaxNow == 110
\* Subscription objects created in one run
MaxSubObjs == 2
\* handleEvent invocations in the runs with subscriptions coming and going
MaxFanCalls == 2
\* longest batch of stat diffs
MaxBatch == 3

(* Program constants *)

\* Integer max value for Postgres
PgIntMax == 2147483647
\* Time.seconds(10), in seconds
FreshSeconds == 10

Conf_pubkey == "ADMIN"

Pubkeys == {"A", "B", "C", Conf_pubkey}

-----------------------------------------------------------------------------
(* Tags *)

TagIdx(tags, names) == {k \in DOMAIN tags : tags[k][1] \in names}

\* getTagSet(tags, name): the values of the tags called name
getTagSet(tags, name) == {tags[k][2] : k \in TagIdx(tags, {name})}

Range(s) == {s[k] : k \in DOMAIN s}

Min(S) == CHOOSE x \in S : \A y \in S : x <= y
Max(S) == CHOOSE x \in S : \A y \in S : x >= y

NoId == 0

\* event.tags.find(([name]) => name === 'e')?.[1]
firstTaggedId(event) ==
  LET idx == TagIdx(event.tags, {"e"})
  IN IF idx = {} THEN NoId ELSE event.tags[Min(idx)][2]

Marker(tag) == IF Len(tag) >= 4 THEN tag[4] ELSE ""

\* findReplyTag(event)?.[1]: the "e" tag marked reply, else the one marked
\* root, else the last unmarked "e" tag
inReplyToId(event) ==
  LET idx == TagIdx(event.tags, {"e"})
      reply == {k \in idx : Marker(event.tags[k]) = "reply"}
      root == {k \in idx : Marker(event.tags[k]) = "root"}
      legacy == {k \in idx : Marker(event.tags[k]) = ""}
  IN IF reply # {} THEN event.tags[Min(reply)][2]
     ELSE IF root # {} THEN event.tags[Min(root)][2]
     ELSE IF legacy # {} THEN event.tags[Max(legacy)][2]
     ELSE NoId

\* NKinds.ephemeral(kind)
ephemeral(kind) == 20000 <= kind /\ kind < 30000

-----------------------------------------------------------------------------
(* Stats engine, stats.ts *)

AuthorRow0 == [followers_count |-> 0, following_count |-> 0, notes_count |-> 0]
EventRow0 == [replies_count |-> 0, reposts_count |-> 0, reactions_count |-> 0]

\* a row of a table, or the zero row when the table has none
AuthorRow(as, pubkey) == IF pubkey \in DOMAIN as THEN as[pubkey] ELSE AuthorRow0
EventRow(es, id) == IF id \in DOMAIN es THEN es[id] ELSE EventRow0

SeqOfSet(S) ==
  LET RECURSIVE build(_)
      build(T) == IF T = {} THEN <<>>
                  ELSE LET x == CHOOSE y \in T : \A z \in T : y <= z
                       IN <<x>> \o build(T \ {x})
  IN build(S)

\* [...new Set(tags.filter(([name]) => name === n).map(([_, value]) => value))]:
\* the values of the tags called name, each once, in the order of the tags
tagValues(tags, name) ==
  LET first == {k \in TagIdx(tags, {name}) :
                  \A j \in TagIdx(tags, {name}) : j < k => tags[j][2] # tags[k][2]}
      idx == SeqOfSet(first)
  IN [k \in 1..Len(idx) |-> tags[idx[k]][2]]

\* getFollowDiff(event, prev): prevTags is prev?.tags ?? []
getFollowDiff(event, prevTags) ==
  LET prevPubkeys == tagValues(prevTags, "p")
      pubkeys == tagValues(event.tags, "p")
      added == SelectSeq(pubkeys, LAMBDA x : x \notin Range(prevPubkeys))
      removed == SelectSeq(prevPubkeys, LAMBDA x : x \notin Range(pubkeys))
  IN [k \in 1..Len(added) |-> <<"author_stats", added[k], "followers_count", 1>>]
     \o [k \in 1..Len(removed) |-> <<"author_stats", removed[k], "followers_count", -1>>]

\* variant: the reply is counted on the first "e" tag
getStatsDiff_firstTag(event, prevTags) ==
  IF event.kind = 1
    THEN <<<<"author_stats", event.pubkey, "notes_count", 1>>>>
         \o (IF firstTaggedId(event) # NoId
               THEN <<<<"event_stats", firstTaggedId(event), "replies_count", 1>>>>
               ELSE <<>>)
    ELSE <<>>

\* getStatsDiff(event): the stat diffs of one event, in the order pushed
getStatsDiff(event, prevTags) ==
  CASE event.kind = 1 ->
         <<<<"author_stats", event.pubkey, "notes_count", 1>>>>
         \o (IF inReplyToId(event) # NoId
               THEN <<<<"event_stats", inReplyToId(event), "replies_count", 1>>>>
               ELSE <<>>)
    [] event.kind = 3 -> getFollowDiff(event, prevTags)
    [] event.kind = 6 ->
         IF firstTaggedId(event) # NoId
           THEN <<<<"event_stats", firstTaggedId(event), "reposts_count", 1>>>>
           ELSE <<>>
    [] event.kind = 7 ->
         IF firstTaggedId(event) # NoId
           THEN <<<<"event_stats", firstTaggedId(event), "reactions_count", 1>>>>
           ELSE <<>>
    [] OTHER -> <<>>

\* variant: on conflict the excluded row replaces the stored one
mergeAuthorRow_overwrite(old, excluded) == excluded

\* doUpdateSet of authorStatsQuery: every column is old + excluded
mergeAuthorRow(old, excluded) ==
  [followers_count |-> old.followers_count + excluded.followers_count,
   following_count |-> old.following_count + excluded.following_count,
   notes_count |-> old.notes_count + excluded.notes_count]

\* doUpdateSet of eventStatsQuery
mergeEventRow(old, excluded) ==
  [replies_count |-> old.replies_count + excluded.replies_count,
   reposts_count |-> old.reposts_count + excluded.reposts_count,
   reactions_count |-> old.reactions_count + excluded.reactions_count]

\* variant: ON CONFLICT DO NOTHING, a stored row is left as it is
upsertAuthor_doNothing(as, pubkey, row) ==
  IF pubkey \in DOMAIN as THEN as ELSE as @@ (pubkey :> row)

\* INSERT one row ... ON CONFLICT(pubkey) DO UPDATE
upsertAuthor(as, pubkey, row) ==
  IF pubkey \in DOMAIN as
    THEN [as EXCEPT ![pubkey] = mergeAuthorRow(@, row)]
    ELSE as @@ (pubkey :> row)

upsertEvent(es, id, row) ==
  IF id \in DOMAIN es
    THEN [es EXCEPT ![id] = mergeEventRow(@, row)]
    ELSE es @@ (id :> row)

\* authorStatsQuery(diffs).execute(): one row per diff, inserted in order
RECURSIVE authorStatsQuery(_, _)
authorStatsQuery(as, diffs) ==
  IF diffs = <<>> THEN as
  ELSE LET d == Head(diffs)
           row == [AuthorRow0 EXCEPT ![d[3]] = d[4]]
       IN authorStatsQuery(upsertAuthor(as, d[2], row), Tail(diffs))

\* eventStatsQuery(diffs).execute()
RECURSIVE eventStatsQuery(_, _)
eventStatsQuery(es, diffs) ==
  IF diffs = <<>> THEN es
  ELSE LET d == Head(diffs)
           row == [EventRow0 EXCEPT ![d[3]] = d[4]]
       IN eventStatsQuery(upsertEvent(es, d[2], row), Tail(diffs))

\* updateFollowingCountQuery(event).execute(): following_count is set, not added
updateFollowingCountQuery(as, event) ==
  LET following_count == Len(tagValues(event.tags, "p"))
  IN IF event.pubkey \in DOMAIN as
       THEN [as EXCEPT ![event.pubkey].following_count = following_count]
       ELSE as @@ (event.pubkey :> [AuthorRow0 EXCEPT !.following_count = following_count])

\* eventsDB.getFilters([{ kinds: [kind], authors: [pubkey], limit: 1 }]): the
\* newest stored event of that kind and author, as a set of at most one event
latestOf(evs, kind, pubkey) ==
  LET S == {e \in evs : e.kind = kind /\ e.pubkey = pubkey}
  IN {e \in S : \A f \in S : f.created_at < e.created_at
                             \/ (f.created_at = e.created_at /\ f.id >= e.id)}

\* maybeSetPrev(event): [thrown, prevTags].  With no stored previous version
\* prev is undefined and prev.created_at throws a TypeError.
maybeSetPrev(evs, event) ==
  LET found == latestOf(evs, event.kind, event.pubkey)
  IN IF found = {} THEN [thrown |-> TRUE, prevTags |-> <<>>]
     ELSE LET prev == CHOOSE e \in found : TRUE
          IN IF prev.created_at < event.created_at
               THEN [thrown |-> FALSE, prevTags |-> prev.tags]
               ELSE [thrown |-> FALSE, prevTags |-> <<>>]

IsAuthorDiff(d) == d[1] = "author_stats"
IsEventDiff(d) == d[1] = "event_stats"

\* updateStats(event) on the tables (as, es) with the stored events evs:
\* [thrown, author_stats, event_stats]
updateStats(evs, as, es, event) ==
  LET sp == IF event.kind = 3 THEN maybeSetPrev(evs, event)
            ELSE [thrown |-> FALSE, prevTags |-> <<>>]
      as1 == IF event.kind = 3 THEN updateFollowingCountQuery(as, event) ELSE as
      statDiffs == getStatsDiff(event, sp.prevTags)
      pubkeyDiffs == SelectSeq(statDiffs, IsAuthorDiff)
      eventDiffs == SelectSeq(statDiffs, IsEventDiff)
  IN IF sp.thrown
       THEN [thrown |-> TRUE, author_stats |-> as, event_stats |-> es]
       ELSE [thrown |-> FALSE,
             author_stats |-> authorStatsQuery(as1, pubkeyDiffs),
             event_stats |-> eventStatsQuery(es, eventDiffs)]

-----------------------------------------------------------------------------
(* Events *)

NoContent == [name |-> "", nip05 |-> ""]

\* content is the parsed metadata of the event: n.json().pipe(n.metadata())
\* gives {} for anything else, here the empty name and nip05
EvC(id, pubkey, kind, created_at, tags, content, sig) ==
  [id |-> id, pubkey |-> pubkey, kind |-> kind, created_at |-> created_at,
   tags |-> tags, content |-> content, sig |-> sig]

Ev(id, pubkey, kind, created_at, tags, sig) ==
  EvC(id, pubkey, kind, created_at, tags, NoContent, sig)

NoEvent == Ev(NoId, "", 0, 0, <<>>, FALSE)

\* a fresh note of the local user A
noteA == Ev(1, "A", 1, Now0, <<>>, TRUE)
\* an old reply of B to noteA, in a thread whose root is event 9
replyB == Ev(2, "B", 1, Now0 - 20,
             <<<<"e", 9, "", "root">>, <<"e", 1, "", "reply">>, <<"p", "A">>>>, TRUE)
\* a follow list of A: B (twice) and C
followA == Ev(3, "A", 3, Now0, <<<<"p", "B">>, <<"p", "B">>, <<"p", "C">>>>, TRUE)
\* a report of B addressed to the operator
reportB == Ev(4, "B", 1984, Now0, <<<<"p", Conf_pubkey>>, <<"e", 1>>>>, TRUE)
\* an ephemeral event of A
ephA == Ev(5, "A", 20001, Now0, <<>>, TRUE)
\* replyB with a signature that does not verify: the same id, forged
forgedB == [replyB EXCEPT !.sig = FALSE]
\* a note of C, whose user record carries the disabled marker
noteC == Ev(7, "C", 1, Now0, <<>>, TRUE)
\* an older follow list of A, stored before the run starts
follow0 == Ev(8, "A", 3, Now0 - 50, <<<<"p", "B">>>>, TRUE)

\* the profile of A, with a NIP-05 name
metaA == EvC(10, "A", 0, Now0, <<>>, [name |-> "alice", nip05 |-> "alice@x.org"], TRUE)
\* the zap request of A for noteA, and the receipt of it
zapRequestA == Ev(11, "A", 9734, Now0, <<<<"e", 1>>, <<"p", "A">>>>, TRUE)
zapB == Ev(12, "B", 9735, Now0,
           <<<<"description", zapRequestA>>, <<"bolt11", 1000>>>>, TRUE)

\* the events callers submit
Submitted == {noteA, replyB, followA, follow0, reportB, ephA, forgedB, noteC, metaA, zapB}

\* the database before the run: empty, or holding follow0 with its stats
InitDBs ==
  {[events |-> {}, author_stats |-> <<>>, event_stats |-> <<>>, applied |-> {}],
   [events |-> {follow0},
    author_stats |-> ("A" :> [AuthorRow0 EXCEPT !.following_count = 1])
                     @@ ("B" :> [AuthorRow0 EXCEPT !.followers_count = 1]),
    event_stats |-> <<>>,
    applied |-> {follow0.id}]}

\* event.user after hydration: the user record of the author, if there is one
userTags(pubkey) ==
  CASE pubkey = "A" -> <<<<"d", "A">>>>
    [] pubkey = "C" -> <<<<"d", "C">>, <<"n", "disabled">>>>
    [] OTHER -> <<>>

hasUser(pubkey) == userTags(pubkey) # <<>>

\* id of the event the operator signs about event id at time t
relId(id, t) == 1000 * id + t

\* the tags of the kind 30383 event generateSetEvents signs for event
relTags(event) ==
  LET ps == tagValues(event.tags, "p")
      es == tagValues(event.tags, "e")
  IN IF event.kind = 1984
       THEN <<<<"d", event.id>>, <<"p", event.pubkey>>, <<"k", "1984">>, <<"n", "open">>>>
            \o [k \in 1..Len(ps) |-> <<"P", ps[k]>>]
            \o [k \in 1..Len(es) |-> <<"e", es[k]>>]
       ELSE <<<<"d", event.id>>, <<"p", event.pubkey>>, <<"k", "3036">>, <<"n", "pending">>>>

\* event.tags.some(([name, value]) => ['p', 'P'].includes(name) && value === Conf.pubkey)
tagsAdmin(event) ==
  \E k \in TagIdx(event.tags, {"p", "P"}) : event.tags[k][2] = Conf_pubkey

\* variant: the derived kind 30383 events are acted on as well
generatesSetEvent_derived(event) ==
  event.kind \in {1984, 3036, 30383} /\ tagsAdmin(event)

\* generateSetEvents acts on reports and requests addressed to the operator
generatesSetEvent(event) == event.kind \in {1984, 3036} /\ tagsAdmin(event)

rel(event, t) == Ev(relId(event.id, t), Conf_pubkey, 30383, t, relTags(event), TRUE)

-----------------------------------------------------------------------------
(* Pipeline helpers, pipeline.ts *)

\* variant: the cache is read and never written
encounterEvent_testOnly(enc, id) ==
  [encountered |-> id \in Range(enc), encounters |-> enc]

\* variant: the id is recorded but a hit is never reported
encounterEvent_noHit(enc, id) ==
  [encountered |-> FALSE,
   encounters |-> IF id \in Range(enc)
                    THEN SelectSeq(enc, LAMBDA x : x # id) \o <<id>>
                    ELSE IF Len(enc) >= LRUMax
                           THEN SubSeq(enc, Len(enc) - LRUMax + 2, Len(enc)) \o <<id>>
                           ELSE enc \o <<id>>]

\* encounterEvent(event): [encountered, encounters].  get() makes a hit the
\* most recently used entry; set() evicts the least recently used one when
\* the cache is full.
encounterEvent(enc, id) ==
  IF id \in Range(enc)
    THEN [encountered |-> TRUE,
          encounters |-> SelectSeq(enc, LAMBDA x : x # id) \o <<id>>]
    ELSE [encountered |-> FALSE,
          encounters |-> IF Len(enc) >= LRUMax
                           THEN SubSeq(enc, Len(enc) - LRUMax + 2, Len(enc)) \o <<id>>
                           ELSE enc \o <<id>>]

\* variant: the query is skipped
existsInDB_never(evs, event) == FALSE

\* existsInDB(event): store.query([{ ids: [event.id], limit: 1 }]).length > 0
existsInDB(evs, event) == \E e \in evs : e.id = event.id

\* variant: the largest value itself is let through
tooLarge_gt(event) == event.created_at > PgIntMax \/ event.kind > PgIntMax

\* the range checks at the top of handleEvent
tooLarge(event) == event.created_at >= PgIntMax \/ event.kind >= PgIntMax

\* variant: only the operator's events go round the policy
skipsPolicy_operator(event) == event.pubkey = Conf_pubkey

\* event.kind !== 24133 guards policyFilter
skipsPolicy(event) == event.kind = 24133

\* isFresh(event): eventAge(event) < Time.seconds(10)
isFresh(event, t) == t - event.created_at < FreshSeconds

\* variant: the marker is never looked at
isDisabled_never(event) == FALSE

\* getTagSet(event.user?.tags ?? [], 'n').has('disabled')
isDisabled(event) == "disabled" \in getTagSet(userTags(event.pubkey), "n")

\* the row handleZaps inserts for a zap receipt, or NoRow when it returns early
NoRow == [receipt_id |-> NoId]

zapRow(event) ==
  LET desc == TagIdx(event.tags, {"description"})
      bolt == TagIdx(event.tags, {"bolt11"})
      zapRequest == event.tags[Min(desc)][2]
      amount_millisats == IF bolt = {} THEN 0 ELSE event.tags[Min(bolt)][2]
  IN IF event.kind # 9735 \/ desc = {} THEN NoRow
     ELSE IF amount_millisats < 1 THEN NoRow
     ELSE IF firstTaggedId(zapRequest) = NoId THEN NoRow
     ELSE [receipt_id |-> event.id,
           target_event_id |-> firstTaggedId(zapRequest),
           sender_pubkey |-> zapRequest.pubkey,
           amount_millisats |-> amount_millisats,
           comment |-> zapRequest.content]

\* handleZaps: the insert; receipt_id is unique and a failing insert is caught
handleZaps(zaps, event, fault) ==
  IF fault \/ (\E z \in zaps : z.receipt_id = event.id) THEN zaps
  ELSE zaps \cup {zapRow(event)}

\* [name, nip05].filter(Boolean), the parts of the search text
searchOf(event) ==
  SelectSeq(<<event.content.name, event.content.nip05>>, LAMBDA x : x # "")

\* handleAuthorSearch: the upsert; a failing one is caught
handleAuthorSearch(search, event, fault) ==
  IF fault THEN search
  ELSE IF event.pubkey \in DOMAIN search
    THEN [search EXCEPT ![event.pubkey] = searchOf(event)]
    ELSE search @@ (event.pubkey :> searchOf(event))

\* parseNip05(nip05).domain
nip05Domain(nip05) ==
  CASE nip05 = "alice@x.org" -> "x.org"
    [] nip05 = "alice@y.org" -> "y.org"
    [] OTHER -> ""

\* variant: ON CONFLICT(pubkey) DO UPDATE with no WHERE clause
parseMetadata_overwrite(domains, event, owner, fault) ==
  IF owner # event.pubkey \/ fault THEN domains
  ELSE LET row == [domain |-> nip05Domain(event.content.nip05),
                   last_updated_at |-> event.created_at]
       IN IF event.pubkey \notin DOMAIN domains
            THEN domains @@ (event.pubkey :> row)
          ELSE [domains EXCEPT ![event.pubkey] = row]

\* parseMetadata after the parse: owner is the pubkey nip05Cache.fetch gives
\* ("" when the fetch fails); the upsert keeps the newest row
parseMetadata(domains, event, owner, fault) ==
  IF owner # event.pubkey \/ fault THEN domains
  ELSE LET row == [domain |-> nip05Domain(event.content.nip05),
                   last_updated_at |-> event.created_at]
       IN IF event.pubkey \notin DOMAIN domains
            THEN domains @@ (event.pubkey :> row)
          ELSE IF row.last_updated_at > domains[event.pubkey].last_updated_at
            THEN [domains EXCEPT ![event.pubkey] = row]
          ELSE domains

\* store.event(event): the unique key on the event id refuses the insert of
\* an id that is already stored
uniqueViolation(evs, event) == \E e \in evs : e.id = event.id

\* the earlier storeEvent: updateStats(...).catch(debug), then store.event,
\* with no transaction around the two
storeEvent_noTx(db, event, sf, insf) ==
  LET st == updateStats(db.events, db.author_stats, db.event_stats, event)
      statsOk == sf = "none" /\ ~st.thrown
      db1 == IF statsOk
               THEN [db EXCEPT !.author_stats = st.author_stats,
                               !.event_stats = st.event_stats,
                               !.applied = @ \cup {event.id}]
               ELSE db
  IN IF insf THEN [ok |-> FALSE, db |-> db1]
     ELSE [ok |-> TRUE, db |-> [db1 EXCEPT !.events = @ \cup {event}]]

\* storeEvent(event) for a non-ephemeral event: store.transaction runs
\* updateStats, then store.event; any throw rolls both back.
\* sf is the fault of the stats queries ("none", "conflict", "other"),
\* insf says whether the insert fails.
storeEvent(db, event, sf, insf) ==
  LET st == updateStats(db.events, db.author_stats, db.event_stats, event)
  IN IF sf # "none" \/ st.thrown \/ insf
       THEN [ok |-> FALSE, db |-> db]
       ELSE [ok |-> TRUE,
             db |-> [events |-> db.events \cup {event},
                     author_stats |-> st.author_stats,
                     event_stats |-> st.event_stats,
                     applied |-> db.applied \cup {event.id}]]

-----------------------------------------------------------------------------
(* Filter matcher, filter.ts, and subscription store, subs.ts *)

\* a filter; a sequence of length 0 is an absent key, <<S>> is the key with values S
Filter(kinds, authors, local) == [kinds |-> kinds, authors |-> authors, local |-> local]

\* variant: one matching key is enough
matchFilter_anyKey(filter, event) ==
  \/ filter.kinds # <<>> /\ event.kind \in filter.kinds[1]
  \/ filter.authors # <<>> /\ event.pubkey \in filter.authors[1]

\* matchFilters([filter], event): every key the filter has must match
matchFilter(filter, event) ==
  /\ filter.kinds # <<>> => event.kind \in filter.kinds[1]
  /\ filter.authors # <<>> => event.pubkey \in filter.authors[1]

\* variant: the local key is not looked at
matchDittoFilter_ignoreLocal(filter, event, data) == matchFilter(filter, event)

\* matchDittoFilter(filter, event, data)
matchDittoFilter(filter, event, data) ==
  IF filter.local /\ ~(data.user \/ event.pubkey = Conf_pubkey)
    THEN FALSE
    ELSE matchFilter(filter, event)

\* variant: every filter of the list has to match
matchDittoFilters_all(filters, event, data) ==
  \A k \in DOMAIN filters : matchDittoFilter(filters[k], event, data)

\* matchDittoFilters(filters, event, data): some filter of the list matches
matchDittoFilters(filters, event, data) ==
  \E k \in DOMAIN filters : matchDittoFilter(filters[k], event, data)

Sockets == {"c1"}
SubIds == {"s1"}

\* the filter lists clients subscribe with
FilterLists ==
  {<<Filter(<<{1}>>, <<>>, FALSE)>>,
   <<Filter(<<{3}>>, <<>>, FALSE), Filter(<<{0, 1}>>, <<{"A"}>>, TRUE)>>}

\* the Subscription objects the store holds
StoredIn(st) == UNION {{st[c][id] : id \in DOMAIN st[c]} : c \in DOMAIN st}

\* sub.matches(event, data) of a Subscription object
Subscription_matches(sub, event, data) == matchDittoFilters(sub.filters, event, data)

\* sub.stream(event): the event is handed to the subscriber
Subscription_stream(sub, event) == [sub EXCEPT !.received = @ \cup {event}]

\* variant: the iteration ends with the first subscription that matches
Sub_matches_firstOnly(st, objs, event, data) ==
  LET S == {o \in StoredIn(st) : Subscription_matches(objs[o], event, data)}
  IN IF S = {} THEN {} ELSE {CHOOSE o \in S : TRUE}

\* Sub.matches(event, data): the stored subscriptions whose filters match
Sub_matches(st, objs, event, data) ==
  {o \in StoredIn(st) : Subscription_matches(objs[o], event, data)}

\* variant: the subscription is closed and stays under its id
Sub_unsub_noDelete(st, objs, socket, id) ==
  IF socket \in DOMAIN st /\ id \in DOMAIN st[socket]
    THEN [store |-> st,
          subObjs |-> [objs EXCEPT ![st[socket][id]].closed = TRUE]]
    ELSE [store |-> st, subObjs |-> objs]

\* Sub.unsub(socket, id) on the store and the objects: [store, subObjs]
Sub_unsub(st, objs, socket, id) ==
  IF socket \in DOMAIN st /\ id \in DOMAIN st[socket]
    THEN [store |-> [st EXCEPT ![socket] =
                       [x \in DOMAIN st[socket] \ {id} |-> st[socket][x]]],
          subObjs |-> [objs EXCEPT ![st[socket][id]].closed = TRUE]]
    ELSE [store |-> st, subObjs |-> objs]

\* variant: the subscription held under the id is overwritten without unsub
Sub_sub_noUnsub(st, objs, socket, id, filters) ==
  LET st1 == IF socket \in DOMAIN st THEN st ELSE st @@ (socket :> <<>>)
      sub == [filters |-> filters, closed |-> FALSE, received |-> {}]
      o == Len(objs) + 1
  IN [store |-> [st1 EXCEPT ![socket] =
                   (id :> o) @@ [x \in DOMAIN st1[socket] \ {id} |-> st1[socket][x]]],
      subObjs |-> Append(objs, sub)]

\* Sub.sub(socket, id, filters)
Sub_sub(st, objs, socket, id, filters) ==
  LET st1 == IF socket \in DOMAIN st THEN st ELSE st @@ (socket :> <<>>)
      sub == [filters |-> filters, closed |-> FALSE, received |-> {}]
      u == Sub_unsub(st1, objs, socket, id)
      o == Len(objs) + 1
  IN [store |-> [u.store EXCEPT ![socket] = @ @@ (id :> o)],
      subObjs |-> Append(u.subObjs, sub)]

\* variant: closing a socket closes and removes the subscriptions of every socket
Sub_close_everySocket(st, objs, socket) ==
  IF socket \in DOMAIN st
    THEN [store |-> <<>>,
          subObjs |-> [o \in DOMAIN objs |->
                         IF o \in StoredIn(st)
                           THEN [objs[o] EXCEPT !.closed = TRUE]
                           ELSE objs[o]]]
    ELSE [store |-> st, subObjs |-> objs]

\* Sub.close(socket)
Sub_close(st, objs, socket) ==
  IF socket \in DOMAIN st
    THEN [store |-> [x \in DOMAIN st \ {socket} |-> st[x]],
          subObjs |-> [o \in DOMAIN objs |->
                         IF o \in {st[socket][id] : id \in DOMAIN st[socket]}
                           THEN [objs[o] EXCEPT !.closed = TRUE]
                           ELSE objs[o]]]
    ELSE [store |-> st, subObjs |-> objs]

-----------------------------------------------------------------------------
(* handleEvent invocations *)

Slots == 1..MaxSlots

TaskNames == {"store", "zaps", "search", "meta", "gen", "stream"}

NoTasks == [t \in TaskNames |-> "none"]

IdleCall ==
  [pc |-> "idle", ev |-> NoEvent, result |-> "pending", exit |-> "",
   tasks |-> NoTasks, parent |-> 0, awaited |-> FALSE,
   storedAtStart |-> FALSE, cachedAtCheck |-> FALSE, policed |-> FALSE,
   storeFault |-> "none",
   liveAtCommit |-> {}, liveAtFanout |-> {}]

Finished(tasks) == \A t \in TaskNames : tasks[t] \in {"none", "skip", "ok", "fail"}

\* the call returns or throws before Promise.all
Exit(c, result, exit) == [c EXCEPT !.pc = "done", !.result = result, !.exit = exit]

\* Promise.all: rejects with the first rejection, resolves when every task has
Settle(c, task, status, err) ==
  LET tasks1 == [c.tasks EXCEPT ![task] = status]
  IN [c EXCEPT !.tasks = tasks1,
               !.pc = IF Finished(tasks1) THEN "done" ELSE c.pc,
               !.exit = "all",
               !.result = IF c.result # "pending" THEN c.result
                          ELSE IF status = "fail" THEN err
                          ELSE IF \A t \in TaskNames : tasks1[t] \in {"skip", "ok"}
                                 THEN "ok"
                          ELSE "pending"]

\* the state of a call entered with event e
Enter(e, parent) ==
  LET c == [IdleCall EXCEPT !.ev = e, !.parent = parent, !.awaited = parent # 0,
                            !.storedAtStart = \E x \in events : x.id = e.id]
  IN IF tooLarge(e) THEN Exit(c, "blocked", "range") ELSE [c EXCEPT !.pc = "verify"]

\* a slot is free when no call uses it, or the call in it has ended and
\* nobody awaits its result
FreeSlots == {i \in Slots : calls[i].pc = "idle"
                            \/ (calls[i].pc = "done" /\ ~calls[i].awaited)}

DB == [events |-> events, author_stats |-> author_stats,
       event_stats |-> event_stats, applied |-> applied]

UnchangedIdx == UNCHANGED <<event_zaps, author_search, pubkey_domains>>
UnchangedStore == UNCHANGED <<events, author_stats, event_stats, applied>>
UnchangedDB == UnchangedStore /\ UnchangedIdx
UnchangedSubs == UNCHANGED <<store, subObjs>>
UnchangedStatsRun == UNCHANGED <<batch, pending, stats0, hydrated>>

\* a caller enters handleEvent(e); callers take turns, the next one enters
\* when the tasks of the call before have ended
Begin(e) ==
  /\ FreeSlots # {}
  /\ ncalls < MaxCalls
  /\ \A i \in Slots : calls[i].pc \in {"idle", "done"}
  /\ calls' = [calls EXCEPT ![Min(FreeSlots)] = Enter(e, 0)]
  /\ ncalls' = ncalls + 1
  /\ UNCHANGED <<encounters, now>>
  /\ UnchangedDB /\ UnchangedSubs /\ UnchangedStatsRun

\* variant: the cache is consulted before the signature is verified
Verify_encounterFirst(i) ==
  /\ calls[i].pc = "verify"
  /\ LET c == calls[i]
         enc == encounterEvent(encounters, c.ev.id)
         c1 == [c EXCEPT !.cachedAtCheck = c.ev.id \in Range(encounters)]
     IN /\ encounters' = enc.encounters
        /\ calls' = [calls EXCEPT ![i] =
             IF enc.encountered THEN Exit(c1, "ok", "encountered")
             ELSE IF ~c.ev.sig THEN Exit(c1, "ok", "unverified")
             ELSE [c1 EXCEPT !.pc = "exists"]]
  /\ UNCHANGED <<ncalls, now>>
  /\ UnchangedDB /\ UnchangedSubs /\ UnchangedStatsRun

\* verifyEventWorker answers, then encounterEvent
Verify(i) ==
  /\ calls[i].pc = "verify"
  /\ LET c == calls[i]
         enc == encounterEvent(encounters, c.ev.id)
     IN IF ~c.ev.sig
          THEN /\ calls' = [calls EXCEPT ![i] = Exit(c, "ok", "unverified")]
               /\ UNCHANGED encounters
          ELSE /\ encounters' = enc.encounters
               /\ LET c1 == [c EXCEPT !.cachedAtCheck = c.ev.id \in Range(encounters)]
                  IN calls' = [calls EXCEPT ![i] =
                       IF enc.encountered THEN Exit(c1, "ok", "encountered")
                       ELSE [c1 EXCEPT !.pc = "exists"]]
  /\ UNCHANGED <<ncalls, now>>
  /\ UnchangedDB /\ UnchangedSubs /\ UnchangedStatsRun

\* existsInDB answers (or the query fails)
ExistsInDB(i, fault) ==
  /\ calls[i].pc = "exists"
  /\ LET c == calls[i]
     IN calls' = [calls EXCEPT ![i] =
          IF fault THEN Exit(c, "error", "existsFault")
          ELSE IF existsInDB(events, c.ev) THEN Exit(c, "ok", "exists")
          ELSE IF ~skipsPolicy(c.ev) THEN [c EXCEPT !.pc = "policy"]
          ELSE [c EXCEPT !.pc = "hydrate"]]
  /\ UNCHANGED <<encounters, ncalls, now>>
  /\ UnchangedDB /\ UnchangedSubs /\ UnchangedStatsRun

\* RelayError.assert(result) of a rejection: the outcome thrown
RelayError_assert == "blocked"

\* variant: a failure of the policy worker lets the event through
PolicyFilter_failOpen(i, answer) ==
  /\ calls[i].pc = "policy"
  /\ LET c == [calls[i] EXCEPT !.policed = TRUE]
     IN calls' = [calls EXCEPT ![i] =
          IF answer \in {"accept", "fault"} THEN [c EXCEPT !.pc = "hydrate"]
          ELSE Exit(c, RelayError_assert, "policy")]
  /\ UNCHANGED <<encounters, ncalls, now>>
  /\ UnchangedDB /\ UnchangedSubs /\ UnchangedStatsRun

\* policyFilter: the policy worker accepts, rejects or fails
PolicyFilter(i, answer) ==
  /\ calls[i].pc = "policy"
  /\ LET c == [calls[i] EXCEPT !.policed = TRUE]
     IN calls' = [calls EXCEPT ![i] =
          IF answer = "accept" THEN [c EXCEPT !.pc = "hydrate"]
          ELSE IF answer = "reject" THEN Exit(c, RelayError_assert, "policy")
          ELSE Exit(c, "blocked", "policy")]
  /\ UNCHANGED <<encounters, ncalls, now>>
  /\ UnchangedDB /\ UnchangedSubs /\ UnchangedStatsRun

\* variant: storeEvent does not return early for an ephemeral kind
Dispatch_storeAll(c) ==
  LET tasks == [store |-> "pending",
                zaps |-> IF zapRow(c.ev) # NoRow THEN "pending" ELSE "skip",
                search |-> IF c.ev.kind = 0 THEN "pending" ELSE "skip",
                meta |-> IF c.ev.kind = 0 /\ c.ev.content.nip05 # ""
                           THEN "pending" ELSE "skip",
                gen |-> IF generatesSetEvent(c.ev) THEN "pending" ELSE "skip",
                stream |-> IF isFresh(c.ev, now) THEN "pending" ELSE "skip"]
  IN [c EXCEPT !.tasks = tasks, !.exit = "all",
               !.pc = IF Finished(tasks) THEN "done" ELSE "tasks",
               !.result = IF Finished(tasks) THEN "ok" ELSE "pending"]

\* the tasks of Promise.all, each run to its first await
Dispatch(c) ==
  LET tasks == [store |-> IF ephemeral(c.ev.kind) THEN "skip" ELSE "pending",
                zaps |-> IF zapRow(c.ev) # NoRow THEN "pending" ELSE "skip",
                search |-> IF c.ev.kind = 0 THEN "pending" ELSE "skip",
                meta |-> IF c.ev.kind = 0 /\ c.ev.content.nip05 # ""
                           THEN "pending" ELSE "skip",
                gen |-> IF generatesSetEvent(c.ev) THEN "pending" ELSE "skip",
                stream |-> IF isFresh(c.ev, now) THEN "pending" ELSE "skip"]
  IN [c EXCEPT !.tasks = tasks, !.exit = "all",
               !.pc = IF Finished(tasks) THEN "done" ELSE "tasks",
               !.result = IF Finished(tasks) THEN "ok" ELSE "pending"]

\* hydrateEvent answers (or fails), the disabled check, and Promise.all starts
Hydrate(i, fault) ==
  /\ calls[i].pc = "hydrate"
  /\ LET c == calls[i]
     IN calls' = [calls EXCEPT ![i] =
          IF fault THEN Exit(c, "error", "hydrateFault")
          ELSE IF isDisabled(c.ev) THEN Exit(c, "blocked", "disabled")
          ELSE Dispatch(c)]
  /\ UNCHANGED <<encounters, ncalls, now>>
  /\ UnchangedDB /\ UnchangedSubs /\ UnchangedStatsRun

\* the transaction of storeEvent ends.  fault is what goes wrong in it:
\* nothing, a conflict or another error in the stats queries, or the insert
StoreEvent(i, fault) ==
  /\ calls[i].tasks.store = "pending"
  /\ LET c == calls[i]
         r == storeEvent(DB, c.ev,
                         IF fault \in {"conflict", "other"} THEN fault ELSE "none",
                         fault = "insert")
         c1 == [c EXCEPT !.storeFault = fault,
                         !.liveAtCommit = IF r.ok THEN StoredIn(store) ELSE {}]
     IN /\ events' = r.db.events
        /\ author_stats' = r.db.author_stats
        /\ event_stats' = r.db.event_stats
        /\ applied' = r.db.applied
        /\ calls' = [calls EXCEPT ![i] =
             Settle(c1, "store", IF r.ok THEN "ok" ELSE "fail", "error")]
  /\ UNCHANGED <<encounters, ncalls, now>>
  /\ UnchangedIdx /\ UnchangedSubs /\ UnchangedStatsRun

\* handleZaps: the insert into event_zaps ends
HandleZaps(i, fault) ==
  /\ calls[i].tasks.zaps = "pending"
  /\ event_zaps' = handleZaps(event_zaps, calls[i].ev, fault)
  /\ calls' = [calls EXCEPT ![i] = Settle(calls[i], "zaps", "ok", "error")]
  /\ UNCHANGED <<encounters, ncalls, now, author_search, pubkey_domains>>
  /\ UnchangedStore /\ UnchangedSubs /\ UnchangedStatsRun

\* handleAuthorSearch: the upsert into author_search ends
HandleAuthorSearch(i, fault) ==
  /\ calls[i].tasks.search = "pending"
  /\ author_search' = handleAuthorSearch(author_search, calls[i].ev, fault)
  /\ calls' = [calls EXCEPT ![i] = Settle(calls[i], "search", "ok", "error")]
  /\ UNCHANGED <<encounters, ncalls, now, event_zaps, pubkey_domains>>
  /\ UnchangedStore /\ UnchangedSubs /\ UnchangedStatsRun

\* parseMetadata: nip05Cache.fetch answers and the upsert into pubkey_domains ends
ParseMetadata(i, owner, fault) ==
  /\ calls[i].tasks.meta = "pending"
  /\ pubkey_domains' = parseMetadata(pubkey_domains, calls[i].ev, owner, fault)
  /\ calls' = [calls EXCEPT ![i] = Settle(calls[i], "meta", "ok", "error")]
  /\ UNCHANGED <<encounters, ncalls, now, event_zaps, author_search>>
  /\ UnchangedStore /\ UnchangedSubs /\ UnchangedStatsRun

\* generateSetEvents: the operator signs the derived event and handleEvent
\* is entered with it
GenerateSetEvents(i, signFault) ==
  /\ calls[i].tasks.gen = "pending"
  /\ IF signFault
       THEN /\ calls' = [calls EXCEPT ![i] = Settle(calls[i], "gen", "fail", "error")]
            /\ UNCHANGED ncalls
       ELSE /\ FreeSlots # {}
            /\ ncalls < MaxCalls
            /\ calls' = [calls EXCEPT
                 ![i] = [calls[i] EXCEPT !.tasks.gen = "wait"],
                 ![Min(FreeSlots)] = Enter(rel(calls[i].ev, now), i)]
            /\ ncalls' = ncalls + 1
  /\ UNCHANGED <<encounters, now>>
  /\ UnchangedDB /\ UnchangedSubs /\ UnchangedStatsRun

\* generateSetEvents: the inner handleEvent has returned or thrown
GenReturn(i) ==
  /\ calls[i].tasks.gen = "wait"
  /\ \E j \in Slots :
       /\ calls[j].parent = i
       /\ calls[j].awaited
       /\ calls[j].result # "pending"
       /\ calls' = [calls EXCEPT
            ![i] = Settle(calls[i], "gen",
                          IF calls[j].result = "ok" THEN "ok" ELSE "fail",
                          calls[j].result),
            ![j] = [calls[j] EXCEPT !.awaited = FALSE]]
  /\ UNCHANGED <<encounters, ncalls, now>>
  /\ UnchangedDB /\ UnchangedSubs /\ UnchangedStatsRun

\* streamOut: pubsub.event streams the event to every matching subscription
StreamOut(i, fault) ==
  /\ calls[i].tasks.stream = "pending"
  /\ LET c == calls[i]
         data == [user |-> hasUser(c.ev.pubkey)]
         to == Sub_matches(store, subObjs, c.ev, data)
     IN IF fault
          THEN /\ calls' = [calls EXCEPT ![i] = Settle(c, "stream", "fail", "error")]
               /\ UNCHANGED subObjs
          ELSE /\ subObjs' = [o \in DOMAIN subObjs |->
                    IF o \in to THEN Subscription_stream(subObjs[o], c.ev)
                    ELSE subObjs[o]]
               /\ calls' = [calls EXCEPT ![i] =
                    Settle([c EXCEPT !.liveAtFanout = StoredIn(store)],
                           "stream", "ok", "error")]
  /\ UNCHANGED <<encounters, ncalls, now, store>>
  /\ UnchangedDB /\ UnchangedStatsRun

\* time passes
Tick ==
  /\ now + FreshSeconds <= MaxNow
  /\ now' = now + FreshSeconds
  /\ UNCHANGED <<encounters, calls, ncalls>>
  /\ UnchangedDB /\ UnchangedSubs /\ UnchangedStatsRun

\* a client subscribes
Subscribe(socket, id, filters) ==
  /\ Len(subObjs) < MaxSubObjs
  /\ LET r == Sub_sub(store, subObjs, socket, id, filters)
     IN store' = r.store /\ subObjs' = r.subObjs
  /\ UNCHANGED <<encounters, calls, ncalls, now>>
  /\ UnchangedDB /\ UnchangedStatsRun

\* a client unsubscribes
Unsubscribe(socket, id) ==
  /\ LET r == Sub_unsub(store, subObjs, socket, id)
     IN store' = r.store /\ subObjs' = r.subObjs
  /\ UNCHANGED <<encounters, calls, ncalls, now>>
  /\ UnchangedDB /\ UnchangedStatsRun

\* a socket closes
Disconnect(socket) ==
  /\ LET r == Sub_close(store, subObjs, socket)
     IN store' = r.store /\ subObjs' = r.subObjs
  /\ UNCHANGED <<encounters, calls, ncalls, now>>
  /\ UnchangedDB /\ UnchangedStatsRun

\* the subscriptions before the run: none, or one on socket c1
InitSubs ==
  {[store |-> <<>>, subObjs |-> <<>>],
   Sub_sub(<<>>, <<>>, "c1", "s1",
           <<Filter(<<{3}>>, <<>>, FALSE), Filter(<<{0, 1}>>, <<{"A"}>>, TRUE)>>)}

InitDurable ==
  /\ \E db \in InitDBs :
       /\ events = db.events
       /\ author_stats = db.author_stats
       /\ event_stats = db.event_stats
       /\ applied = db.applied
  /\ event_zaps = {}
  /\ author_search = <<>>
  /\ pubkey_domains = <<>>
  /\ encounters = <<>>
  /\ calls = [i \in Slots |-> IdleCall]
  /\ ncalls = 0
  /\ now = Now0
  /\ batch = <<>>
  /\ pending = {}
  /\ stats0 = [author_stats |-> <<>>, event_stats |-> <<>>]
  /\ hydrated = <<>>

Init ==
  /\ InitDurable
  /\ \E s \in InitSubs : store = s.store /\ subObjs = s.subObjs

\* the steps of the handleEvent invocations under way
PipelineStep ==
  \/ \E i \in Slots : Verify(i)
  \/ \E i \in Slots, fault \in BOOLEAN : ExistsInDB(i, fault)
  \/ \E i \in Slots, answer \in {"accept", "reject", "fault"} : PolicyFilter(i, answer)
  \/ \E i \in Slots, fault \in BOOLEAN : Hydrate(i, fault)
  \/ \E i \in Slots, fault \in {"none", "conflict", "other", "insert"} :
       StoreEvent(i, fault)
  \/ \E i \in Slots, fault \in BOOLEAN : StreamOut(i, fault)

\* the steps of the tasks that keep the indexes
IndexStep ==
  \/ \E i \in Slots, fault \in BOOLEAN : HandleZaps(i, fault)
  \/ \E i \in Slots, fault \in BOOLEAN : HandleAuthorSearch(i, fault)
  \/ \E i \in Slots, owner \in {"", "A", "B"}, fault \in BOOLEAN :
       ParseMetadata(i, owner, fault)

Next ==
  \/ \E e \in Submitted : Begin(e)
  \/ PipelineStep
  \/ IndexStep
  \/ \E i \in Slots, fault \in BOOLEAN : GenerateSetEvents(i, fault)
  \/ \E i \in Slots : GenReturn(i)

Spec == Init /\ [][Next]_vars

\* the events submitted in the runs with subscriptions coming and going
FanSubmitted == {noteA, replyB, ephA}

BeginFan(e) == ncalls < MaxFanCalls /\ Begin(e)

InitFan == InitDurable /\ store = <<>> /\ subObjs = <<>>

NextFan ==
  \/ \E e \in FanSubmitted : BeginFan(e)
  \/ PipelineStep
  \/ Tick
  \/ \E c \in Sockets, id \in SubIds, f \in FilterLists : Subscribe(c, id, f)
  \/ \E c \in Sockets, id \in SubIds : Unsubscribe(c, id)
  \/ \E c \in Sockets : Disconnect(c)

SpecFan == InitFan /\ [][NextFan]_vars

-----------------------------------------------------------------------------
(* Runs of the checks at the head of handleEvent, on events at the edges of  *)
(* those checks.                                                             *)

\* the age, in seconds, after which the specification calls an ephemeral
\* event stale
EphemeralMaxAge == 60

\* created_at is the largest 32-bit integer, and one less
futureA == Ev(20, "A", 1, PgIntMax, <<>>, TRUE)
almostFutureA == Ev(21, "A", 1, PgIntMax - 1, <<>>, TRUE)
\* kind is the largest 32-bit integer, and one less
hugeKindA == Ev(22, "A", PgIntMax, Now0, <<>>, TRUE)
almostHugeKindA == Ev(23, "A", PgIntMax - 1, Now0, <<>>, TRUE)
\* an ephemeral event created 90 seconds before the run starts
ephOldA == Ev(17, "A", 20001, Now0 - 90, <<>>, TRUE)
\* a NIP-46 message of B and a note of the operator
connectB == Ev(18, "B", 24133, Now0, <<>>, TRUE)
noteAdmin == Ev(19, Conf_pubkey, 1, Now0, <<>>, TRUE)

GateSubmitted ==
  {futureA, almostFutureA, hugeKindA, almostHugeKindA, ephOldA, connectB, noteAdmin}

NextGate ==
  \/ \E e \in GateSubmitted : Begin(e)
  \/ PipelineStep

SpecGate == Init /\ [][NextGate]_vars

-----------------------------------------------------------------------------
(* Runs of the stats engine alone: the stat diffs of a batch of events are   *)
(* applied one at a time, in any order.                                      *)

\* a second note of A, a repost of noteA and a reaction to it
noteA2 == Ev(13, "A", 1, Now0, <<>>, TRUE)
repostC == Ev(14, "C", 6, Now0, <<<<"e", 1>>, <<"p", "A">>>>, TRUE)
likeB == Ev(15, "B", 7, Now0, <<<<"e", 1>>, <<"p", "A">>>>, TRUE)
\* a newer follow list of A: C only
followA2 == Ev(16, "A", 3, Now0 + 1, <<<<"p", "C">>>>, TRUE)

\* a still newer follow list of A: nobody
followA3 == Ev(45, "A", 3, Now0 + 2, <<>>, TRUE)

BatchEvents == {noteA, noteA2, replyB, repostC, likeB, followA, followA2, followA3}

\* the stat diffs updateStats computes for event when evs are the stored events
diffsOf(evs, event) ==
  LET sp == IF event.kind = 3 THEN maybeSetPrev(evs, event)
            ELSE [thrown |-> FALSE, prevTags |-> <<>>]
  IN IF sp.thrown THEN <<>> ELSE getStatsDiff(event, sp.prevTags)

RECURSIVE batchDiffs(_, _)
batchDiffs(evs, es) ==
  IF es = <<>> THEN <<>> ELSE diffsOf(evs, Head(es)) \o batchDiffs(evs, Tail(es))

\* the sequences of distinct events of length 1..MaxBatch
Batches ==
  UNION {{es \in [1..n -> BatchEvents] : \A j, k \in 1..n : j # k => es[j] # es[k]}
           : n \in 1..MaxBatch}

InitStats ==
  /\ \E db \in InitDBs :
       /\ events = db.events
       /\ author_stats = db.author_stats
       /\ event_stats = db.event_stats
       /\ applied = db.applied
       /\ stats0 = [author_stats |-> db.author_stats, event_stats |-> db.event_stats]
       /\ \E es \in Batches : batch = batchDiffs(db.events, es)
  /\ pending = DOMAIN batch
  /\ event_zaps = {}
  /\ author_search = <<>>
  /\ pubkey_domains = <<>>
  /\ encounters = <<>>
  /\ calls = [i \in Slots |-> IdleCall]
  /\ ncalls = 0
  /\ now = Now0
  /\ store = <<>>
  /\ subObjs = <<>>
  /\ hydrated = <<>>

UnchangedPipeline ==
  UNCHANGED <<events, applied, event_zaps, author_search, pubkey_domains,
              encounters, calls, ncalls, now, store, subObjs, batch, stats0,
              hydrated>>

\* authorStatsQuery([batch[k]]).execute()
ApplyAuthorDiff(k) ==
  /\ k \in pending
  /\ IsAuthorDiff(batch[k])
  /\ author_stats' = authorStatsQuery(author_stats, <<batch[k]>>)
  /\ pending' = pending \ {k}
  /\ UNCHANGED event_stats
  /\ UnchangedPipeline

\* eventStatsQuery([batch[k]]).execute()
ApplyEventDiff(k) ==
  /\ k \in pending
  /\ IsEventDiff(batch[k])
  /\ event_stats' = eventStatsQuery(event_stats, <<batch[k]>>)
  /\ pending' = pending \ {k}
  /\ UNCHANGED author_stats
  /\ UnchangedPipeline

NextStats ==
  \/ \E k \in 1..(3 * MaxBatch) : ApplyAuthorDiff(k)
  \/ \E k \in 1..(3 * MaxBatch) : ApplyEventDiff(k)

SpecStats == InitStats /\ [][NextStats]_vars

-----------------------------------------------------------------------------
(* Runs of the subscription store alone: clients on two sockets subscribe,   *)
(* unsubscribe and disconnect, and events are matched against the store.     *)

\* Sub.sub calls in one run, counting the subscriptions before the run
MaxStoreSubs == 3
\* events handed to subscriptions in one run
MaxStreamed == 1

\* the (socket, id) pairs clients use
StoreKeys == {<<"c1", "s1">>, <<"c1", "s2">>, <<"c2", "s1">>}

kind1ofA == Filter(<<{1}>>, <<{"A"}>>, FALSE)
localOnly == Filter(<<>>, <<>>, TRUE)
kind3 == Filter(<<{3}>>, <<>>, FALSE)
localKind1 == Filter(<<{1}>>, <<>>, TRUE)

\* the filter lists clients subscribe with
StoreFilterLists == {<<>>, <<kind1ofA>>, <<localOnly>>, <<kind3, localKind1>>}

\* the events matched against the store
MatchEvents == {noteA, replyB, noteAdmin, followA}

\* number of events the subscription objects have been handed
RECURSIVE streamed(_)
streamed(objs) ==
  IF objs = <<>> THEN 0
  ELSE Cardinality(Head(objs).received) + streamed(Tail(objs))

\* the store before the run: each socket holds one subscription, the one of
\* c1 with an empty filter list; nothing is in the database
InitStore ==
  /\ events = {} /\ author_stats = <<>> /\ event_stats = <<>> /\ applied = {}
  /\ event_zaps = {} /\ author_search = <<>> /\ pubkey_domains = <<>>
  /\ encounters = <<>>
  /\ calls = [i \in Slots |-> IdleCall]
  /\ ncalls = 0
  /\ now = Now0
  /\ batch = <<>> /\ pending = {}
  /\ stats0 = [author_stats |-> <<>>, event_stats |-> <<>>]
  /\ hydrated = <<>>
  /\ LET r == Sub_sub(<<>>, <<>>, "c2", "s1", <<kind3, localKind1>>)
         s == Sub_sub(r.store, r.subObjs, "c1", "s1", <<>>)
     IN store = s.store /\ subObjs = s.subObjs

\* Sub.sub(socket, id, filters)
StoreSub(socket, id, filters) ==
  /\ Len(subObjs) < MaxStoreSubs
  /\ LET r == Sub_sub(store, subObjs, socket, id, filters)
     IN store' = r.store /\ subObjs' = r.subObjs
  /\ UNCHANGED <<encounters, calls, ncalls, now>>
  /\ UnchangedDB /\ UnchangedStatsRun

\* for (const sub of Sub.matches(event, data)) sub.stream(event)
Matches(event, data) ==
  /\ streamed(subObjs) < MaxStreamed
  /\ LET to == Sub_matches(store, subObjs, event, data)
     IN subObjs' = [o \in DOMAIN subObjs |->
                      IF o \in to THEN Subscription_stream(subObjs[o], event)
                      ELSE subObjs[o]]
  /\ UNCHANGED <<encounters, calls, ncalls, now, store>>
  /\ UnchangedDB /\ UnchangedStatsRun

NextSubs ==
  \/ \E k \in StoreKeys, f \in StoreFilterLists : StoreSub(k[1], k[2], f)
  \/ \E k \in StoreKeys : Unsubscribe(k[1], k[2])
  \/ \E c \in {"c1", "c2"} : Disconnect(c)
  \/ \E e \in MatchEvents, user \in BOOLEAN : Matches(e, [user |-> user])

SpecSubs == InitStore /\ [][NextSubs]_vars

-----------------------------------------------------------------------------
(* Runs of the hydration engine alone (storages/hydrate.ts): an event is     *)
(* hydrated from a store holding some of the events it leads to.  A hydrated *)
(* event is [event, author, repost, quote]; a relation is <<>> when it is    *)
(* not attached and <<x>> when x is attached.                                *)

\* levels of relations hydration resolves
HydrateDepth == 2
\* events hydrated in one call
MaxHydrateBatch == 2

\* the profile of B
metaB == EvC(36, "B", 0, Now0, <<>>, [name |-> "bob", nip05 |-> ""], TRUE)
\* a chain: A reposts a quote post of B, which quotes a note of A, which
\* quotes a note of B
hRepost == Ev(30, "A", 6, Now0, <<<<"e", 31>>, <<"p", "B">>>>, TRUE)
hQuote == Ev(31, "B", 1, Now0, <<<<"q", 32>>>>, TRUE)
hNote == Ev(32, "A", 1, Now0, <<<<"q", 33>>>>, TRUE)
hDeep == Ev(33, "B", 1, Now0, <<>>, TRUE)
\* a cycle: two notes quoting each other
hCycA == Ev(34, "A", 1, Now0, <<<<"q", 35>>>>, TRUE)
hCycB == Ev(35, "B", 1, Now0, <<<<"q", 34>>>>, TRUE)

HydrateEvents == {metaA, metaB, hRepost, hQuote, hNote, hDeep, hCycA, hCycB}

\* the id in the quote-marker tag of event
quoteId(event) ==
  LET idx == TagIdx(event.tags, {"q"})
  IN IF idx = {} THEN NoId ELSE event.tags[Min(idx)][2]

\* the stored event with the id, as a relation
byId(evs, id) ==
  LET found == {e \in evs : e.id = id}
  IN IF found = {} THEN <<>> ELSE <<CHOOSE e \in found : TRUE>>

\* author: the latest kind 0 event for pubkey
authorOf(evs, pubkey) ==
  LET found == latestOf(evs, 0, pubkey)
  IN IF found = {} THEN <<>> ELSE <<CHOOSE e \in found : TRUE>>

\* event with its author and, while depth levels remain, its repost and quote
\* targets, each hydrated one further level
RECURSIVE hydrateLevel(_, _, _)
hydrateLevel(evs, event, depth) ==
  LET repost == IF event.kind = 6 THEN byId(evs, firstTaggedId(event)) ELSE <<>>
      quote == IF event.kind = 1 THEN byId(evs, quoteId(event)) ELSE <<>>
  IN [event |-> event,
      author |-> authorOf(evs, event.pubkey),
      repost |-> IF depth > 0 /\ repost # <<>>
                   THEN <<hydrateLevel(evs, repost[1], depth - 1)>> ELSE <<>>,
      quote |-> IF depth > 0 /\ quote # <<>>
                  THEN <<hydrateLevel(evs, quote[1], depth - 1)>> ELSE <<>>]

\* variant: one level more is resolved
hydrateEvents_threeLevels(evs, es) ==
  [k \in DOMAIN es |-> hydrateLevel(evs, es[k], HydrateDepth + 1)]

\* hydrateEvents({ events: es, store }): the events of the batch, hydrated
hydrateEvents(evs, es) ==
  [k \in DOMAIN es |-> hydrateLevel(evs, es[k], HydrateDepth)]

\* the batches of events hydrated together
HydrateBatches == UNION {[1..n -> {hRepost, hQuote, hCycA}] : n \in 1..MaxHydrateBatch}

\* the store holds any of the events
InitHydrate ==
  /\ events \in SUBSET HydrateEvents
  /\ author_stats = <<>> /\ event_stats = <<>> /\ applied = {}
  /\ event_zaps = {} /\ author_search = <<>> /\ pubkey_domains = <<>>
  /\ encounters = <<>>
  /\ calls = [i \in Slots |-> IdleCall]
  /\ ncalls = 0
  /\ now = Now0
  /\ store = <<>> /\ subObjs = <<>>
  /\ batch = <<>> /\ pending = {}
  /\ stats0 = [author_stats |-> <<>>, event_stats |-> <<>>]
  /\ hydrated = <<>>

\* await hydrateEvents({ events: es, store })
HydrateRun(es) ==
  /\ hydrated' = hydrateEvents(events, es)
  /\ UNCHANGED <<events, author_stats, event_stats, applied, event_zaps,
                 author_search, pubkey_domains, encounters, calls, ncalls, now,
                 store, subObjs, batch, pending, stats0>>

NextHydrate == \E es \in HydrateBatches : HydrateRun(es)

SpecHydrate == InitHydrate /\ [][NextHydrate]_vars

-----------------------------------------------------------------------------
(* Runs in which the caller of a call that ended with an error submits the   *)
(* same event again.                                                         *)

RetrySubmitted == {noteA, replyB}

\* the caller of the failed call in slot i calls handleEvent again with the
\* same event; the record of the failed call is kept
Resubmit(i) ==
  /\ calls[i].pc = "done"
  /\ calls[i].result = "error"
  /\ calls[i].parent = 0
  /\ ncalls < MaxCalls
  /\ \A k \in Slots : calls[k].pc \in {"idle", "done"}
  /\ FreeSlots \ {i} # {}
  /\ calls' = [calls EXCEPT ![Min(FreeSlots \ {i})] = Enter(calls[i].ev, 0)]
  /\ ncalls' = ncalls + 1
  /\ UNCHANGED <<encounters, now>>
  /\ UnchangedDB /\ UnchangedSubs /\ UnchangedStatsRun

NextRetry ==
  \/ \E e \in RetrySubmitted : Begin(e)
  \/ \E i \in Slots : Resubmit(i)
  \/ PipelineStep

SpecRetry == Init /\ [][NextRetry]_vars

-----------------------------------------------------------------------------
(* Runs in which follow lists arrive in any order, some older than the one   *)
(* that is stored.                                                           *)

\* a follow list of A older than follow0, and the first follow list of B
followOldA == Ev(40, "A", 3, Now0 - 60, <<<<"p", "B">>, <<"p", "C">>>>, TRUE)
followB == Ev(41, "B", 3, Now0, <<<<"p", "A">>>>, TRUE)

FollowSubmitted == {followA, followA2, followOldA, followB}

NextFollow ==
  \/ \E e \in FollowSubmitted : Begin(e)
  \/ PipelineStep

SpecFollow == Init /\ [][NextFollow]_vars

-----------------------------------------------------------------------------
(* Runs in which callers do not take turns: the same event is submitted    *)
(* while an invocation for it is under way, and other events evict its id  *)
(* from the cache in between.                                               *)
MaxRaceCalls == 3
RaceSubmitted == {noteA, replyB}

\* a caller enters handleEvent(e) whatever the other invocations are doing
BeginRace(e) ==
  /\ FreeSlots # {}
  /\ ncalls < MaxRaceCalls
  /\ calls' = [calls EXCEPT ![Min(FreeSlots)] = Enter(e, 0)]
  /\ ncalls' = ncalls + 1
  /\ UNCHANGED <<encounters, now>>
  /\ UnchangedDB /\ UnchangedSubs /\ UnchangedStatsRun

\* variant: the insert of an id that is already stored goes through
StoreEventUnique_noKey(i, fault) == StoreEvent(i, fault)

\* the transaction of storeEvent ends.  When callers take turns the insert of
\* a stored id is never attempted; here it is, and the unique key refuses it
StoreEventUnique(i, fault) ==
  /\ calls[i].tasks.store = "pending"
  /\ LET c == calls[i]
         r == storeEvent(DB, c.ev,
                         IF fault \in {"conflict", "other"} THEN fault ELSE "none",
                         fault = "insert" \/ uniqueViolation(events, c.ev))
         c1 == [c EXCEPT !.storeFault = fault,
                         !.liveAtCommit = IF r.ok THEN StoredIn(store) ELSE {}]
     IN /\ events' = r.db.events
        /\ author_stats' = r.db.author_stats
        /\ event_stats' = r.db.event_stats
        /\ applied' = r.db.applied
        /\ calls' = [calls EXCEPT ![i] =
             Settle(c1, "store", IF r.ok THEN "ok" ELSE "fail", "error")]
  /\ UNCHANGED <<encounters, ncalls, now>>
  /\ UnchangedIdx /\ UnchangedSubs /\ UnchangedStatsRun

NextRace ==
  \/ \E e \in RaceSubmitted : BeginRace(e)
  \/ \E i \in Slots : Verify(i)
  \/ \E i \in Slots, fault \in BOOLEAN : ExistsInDB(i, fault)
  \/ \E i \in Slots, answer \in {"accept", "reject", "fault"} : PolicyFilter(i, answer)
  \/ \E i \in Slots, fault \in BOOLEAN : Hydrate(i, fault)
  \/ \E i \in Slots, fault \in {"none", "conflict", "other", "insert"} :
       StoreEventUnique(i, fault)
  \/ \E i \in Slots, fault \in BOOLEAN : StreamOut(i, fault)

SpecRace == InitFan /\ [][NextRace]_vars

-----------------------------------------------------------------------------
(* Runs in which profiles of one author arrive in any order, each with the *)
(* answer the NIP-05 lookup gives for its name.                             *)
\* a newer and an older profile of A under other domains, and a newest one
\* whose name belongs to somebody else
metaA2 == EvC(42, "A", 0, Now0 + 1, <<>>, [name |-> "alice", nip05 |-> "alice@y.org"], TRUE)
metaOldA == EvC(43, "A", 0, Now0 - 10, <<>>, [name |-> "alice", nip05 |-> "alice@x.org"], TRUE)
metaFakeA == EvC(44, "A", 0, Now0 + 2, <<>>, [name |-> "alice", nip05 |-> "bob@x.org"], TRUE)
MetaSubmitted == {metaA, metaA2, metaOldA, metaFakeA}

\* result.pubkey of nip05Cache.fetch(nip05)
nip05Owner(nip05) == IF nip05 \in {"alice@x.org", "alice@y.org"} THEN "A" ELSE "B"

\* a caller enters handleEvent(e) while the lookups of the invocations
\* before it may still be under way; the records of the invocations that
\* ended are kept
BeginMeta(e) ==
  /\ \E i \in Slots : calls[i].pc = "idle"
  /\ \A i \in Slots :
       /\ calls[i].pc \in {"idle", "tasks", "done"}
       /\ \A t \in TaskNames \ {"meta"} : calls[i].tasks[t] # "pending"
  /\ calls' = [calls EXCEPT ![Min({i \in Slots : calls[i].pc = "idle"})] = Enter(e, 0)]
  /\ ncalls' = ncalls + 1
  /\ UNCHANGED <<encounters, now>>
  /\ UnchangedDB /\ UnchangedSubs /\ UnchangedStatsRun

\* the steps are those of runs in which nothing but the lookup fails
NextMeta ==
  \/ \E e \in MetaSubmitted : BeginMeta(e)
  \/ \E i \in Slots : Verify(i)
  \/ \E i \in Slots : ExistsInDB(i, FALSE)
  \/ \E i \in Slots : PolicyFilter(i, "accept")
  \/ \E i \in Slots : Hydrate(i, FALSE)
  \/ \E i \in Slots : StoreEvent(i, "none")
  \/ \E i \in Slots : StreamOut(i, FALSE)
  \/ \E i \in Slots : HandleAuthorSearch(i, FALSE)
  \/ \E i \in Slots : ParseMetadata(i, nip05Owner(calls[i].ev.content.nip05), FALSE)

SpecMeta == InitFan /\ [][NextMeta]_vars

-----------------------------------------------------------------------------
(* Properties *)

Durable == <<events, author_stats, event_stats>>

\* the hydration data streamOut matches an event with
dataOf(event) == [user |-> hasUser(event.pubkey)]

\* C1: processing an event that is already stored changes nothing durable:
\* no step of a call entered with a stored event changes the event store or
\* either stats table.
C1_SecondCallChangesNothing ==
  [][\A i \in Slots :
       (calls[i].storedAtStart /\ calls'[i] # calls[i]) => Durable' = Durable]_vars

\* a call entered with an already stored event has returned normally
C1_Witness ==
  \E i \in Slots : /\ calls[i].storedAtStart
                   /\ calls[i].pc = "done"
                   /\ calls[i].result = "ok"
                   /\ calls[i].ev \in events

C3_NoDeliveryBeforeCommit ==
  \A o \in DOMAIN subObjs :
    \A e \in subObjs[o].received : ~ephemeral(e.kind) => e \in events

C5_StoreAndStatsAtomic ==
  /\ {e.id : e \in events} = applied
  /\ \A p \in Pubkeys :
       AuthorRow(author_stats, p).notes_count
         = Cardinality({e \in events : e.kind = 1 /\ e.pubkey = p})

\* the insert of a note failed after its stat diffs ran, and another note is
\* stored
C5_Witness ==
  /\ \E i \in Slots : /\ calls[i].storeFault = "insert"
                      /\ calls[i].tasks.store = "fail"
                      /\ calls[i].ev.kind = 1
  /\ \E e \in events : e.kind = 1

\* C6 as stated: once the event is committed, a failure of fan-out or of
\* derived-event generation is not returned to the caller: a call that has
\* ended with the event stored has returned success.
C6_SideEffectFailureNotReturned ==
  \A i \in Slots :
    (calls[i].pc = "done" /\ calls[i].tasks.store = "ok") => calls[i].result = "ok"

\* C7 as stated: when the stats update hits a recognized conflict the event
\* is persisted all the same.
C7_ConflictStillPersists ==
  \A i \in Slots :
    (calls[i].storeFault = "conflict" /\ calls[i].tasks.store # "pending")
    => (calls[i].tasks.store = "ok" /\ calls[i].ev \in events)

\* C8: the step that stores a kind-1 event adds 1 to its author's
\* notes_count, adds 1 to the replies_count of the event it replies to when
\* it is a reply, and leaves every other counter as it was.
C8_NoteCounters ==
  [][\A e \in events' \ events :
       e.kind = 1 =>
         /\ \A p \in Pubkeys \cup DOMAIN author_stats \cup DOMAIN author_stats' :
              AuthorRow(author_stats', p)
                = IF p = e.pubkey
                    THEN [AuthorRow(author_stats, p) EXCEPT !.notes_count = @ + 1]
                    ELSE AuthorRow(author_stats, p)
         /\ \A id \in DOMAIN event_stats \cup DOMAIN event_stats' \cup {inReplyToId(e)} :
              EventRow(event_stats', id)
                = IF id = inReplyToId(e) /\ id # NoId
                    THEN [EventRow(event_stats, id) EXCEPT !.replies_count = @ + 1]
                    ELSE EventRow(event_stats, id)]_vars

\* the reply is stored and counted on the event its reply tag names, not on
\* the root of the thread
C8_Witness ==
  /\ replyB \in events
  /\ EventRow(event_stats, inReplyToId(replyB)).replies_count = 1
  /\ EventRow(event_stats, firstTaggedId(replyB)).replies_count = 0
  /\ AuthorRow(author_stats, replyB.pubkey).notes_count = 1

\* C9 as stated: after a kind-3 event has been processed with no fault, its
\* author's following_count is the number of distinct "p" tags of the event.
C9_FollowingCountIsListSize ==
  \A i \in Slots :
    LET c == calls[i]
    IN (c.ev.kind = 3 /\ c.pc = "done" /\ c.exit = "all" /\ c.storeFault = "none")
       => AuthorRow(author_stats, c.ev.pubkey).following_count
            = Cardinality(getTagSet(c.ev.tags, "p"))

\* C10: stat diffs commute: when every diff of the batch has been applied,
\* in whatever order, the tables are those of applying them in batch order.
C10_DiffsCommute ==
  pending = {} =>
    /\ author_stats = authorStatsQuery(stats0.author_stats, SelectSeq(batch, IsAuthorDiff))
    /\ event_stats = eventStatsQuery(stats0.event_stats, SelectSeq(batch, IsEventDiff))

\* a batch with two diffs on different counters of one row and a negative
\* diff has been applied completely
C10_Witness ==
  /\ pending = {}
  /\ \E j, k \in DOMAIN batch : /\ batch[j][1] = batch[k][1]
                                /\ batch[j][2] = batch[k][2]
                                /\ batch[j][3] # batch[k][3]
  /\ \E k \in DOMAIN batch : batch[k][4] < 0

\* the sum of the diffs with the indexes S of the batch that are on the
\* counter stat of the row key of table
RECURSIVE sumDiffs(_, _, _, _)
sumDiffs(S, table, key, stat) ==
  IF S = {} THEN 0
  ELSE LET k == CHOOSE x \in S : TRUE
           d == batch[k]
       IN (IF d[1] = table /\ d[2] = key /\ d[3] = stat THEN d[4] ELSE 0)
          + sumDiffs(S \ {k}, table, key, stat)

\* C11: no update is lost: whatever diffs of the batch have been applied, in
\* whatever order, every counter the batch names is its old value (0 for a
\* missing row) plus the sum of the applied diffs on it.
C11_NoLostUpdate ==
  \A k \in DOMAIN batch :
    LET d == batch[k]
        applied_ == DOMAIN batch \ pending
    IN IF IsAuthorDiff(d)
         THEN AuthorRow(author_stats, d[2])[d[3]]
                = AuthorRow(stats0.author_stats, d[2])[d[3]]
                  + sumDiffs(applied_, d[1], d[2], d[3])
         ELSE EventRow(event_stats, d[2])[d[3]]
                = EventRow(stats0.event_stats, d[2])[d[3]]
                  + sumDiffs(applied_, d[1], d[2], d[3])

\* two diffs on the same counter of a row that did not exist have both been
\* applied
C11_Witness ==
  /\ pending = {}
  /\ \E j, k \in DOMAIN batch :
       /\ j # k
       /\ IsAuthorDiff(batch[j]) /\ IsAuthorDiff(batch[k])
       /\ batch[j][2] = batch[k][2]
       /\ batch[j][3] = batch[k][3]
       /\ batch[j][2] \notin DOMAIN stats0.author_stats
       /\ author_stats[batch[j][2]][batch[j][3]] = batch[j][4] + batch[k][4]

\* C12 as stated: a call for an ephemeral event older than the freshness
\* threshold ends with the outcome invalid, the event neither stored nor
\* handed to a subscriber (stated for the calls no oracle or storage fault
\* and no policy rejection ended).
C12_StaleEphemeralIsInvalid ==
  \A i \in Slots :
    LET c == calls[i]
    IN (/\ c.pc = "done"
        /\ c.exit = "all"
        /\ ephemeral(c.ev.kind)
        /\ now - c.ev.created_at > EphemeralMaxAge)
       => /\ c.result = "invalid"
          /\ c.ev \notin events
          /\ \A o \in DOMAIN subObjs : c.ev \notin subObjs[o].received

\* C13 as stated: a call is rejected by the range check exactly when
\* created_at or kind is greater than 2,147,483,647, and the rejection is
\* the outcome invalid.
C13_RangeIsInvalid ==
  \A i \in Slots :
    LET c == calls[i]
    IN c.pc # "idle"
       => /\ c.exit = "range" <=> (c.ev.created_at > PgIntMax \/ c.ev.kind > PgIntMax)
          /\ c.exit = "range" => c.result = "invalid"

\* C13 amended: a call is rejected by the range check exactly when
\* created_at or kind is 2,147,483,647 or more; the rejection is the outcome
\* blocked and comes before every other step: the event is not verified,
\* not entered in the dedup cache, not policy-evaluated and no task starts.
C13_RangeIsBlocked ==
  \A i \in Slots :
    LET c == calls[i]
    IN c.pc # "idle"
       => /\ c.exit = "range" <=> (c.ev.created_at >= PgIntMax \/ c.ev.kind >= PgIntMax)
          /\ c.exit = "range"
             => /\ c.pc = "done"
                /\ c.result = "blocked"
                /\ ~c.policed
                /\ ~c.cachedAtCheck
                /\ c.tasks = NoTasks
                /\ c.ev.id \notin Range(encounters)
                /\ c.ev \notin events

\* the event created at 2,147,483,647 is rejected after the one created a
\* second earlier was stored
C13_Witness ==
  /\ almostFutureA \in events
  /\ \E i \in Slots : /\ calls[i].ev = futureA
                      /\ calls[i].exit = "range"
                      /\ calls[i].result = "blocked"

\* C14 as stated: a call for an event whose signature does not verify ends
\* with the outcome invalid, with no policy evaluation and no task started,
\* the event not stored.
C14_UnverifiedIsInvalid ==
  \A i \in Slots :
    LET c == calls[i]
    IN (c.pc = "done" /\ c.exit = "unverified")
       => /\ c.result = "invalid"
          /\ ~c.policed
          /\ c.tasks = NoTasks

\* C15: the dedup cache is written only for an event whose signature has
\* been verified: every step that changes the cache is a step of a call at
\* its verification whose event verifies, and puts that event's id last.
C15_CacheOnlyVerified ==
  [][encounters' # encounters
       => \E i \in Slots : /\ calls[i].pc = "verify"
                           /\ calls[i].ev.sig
                           /\ ~tooLarge(calls[i].ev)
                           /\ encounters' # <<>>
                           /\ encounters'[Len(encounters')] = calls[i].ev.id]_vars

\* a forged event has been dropped while the cache holds other ids, and
\* its id is not in the cache
C15_Witness ==
  \E i \in Slots : /\ calls[i].exit = "unverified"
                   /\ encounters # <<>>
                   /\ calls[i].ev.id \notin Range(encounters)

\* C16: when the policy worker rejects the event, or the call of the
\* worker fails, the call ends there with the outcome blocked: that step
\* changes no table and delivers nothing, and the call stays ended with no
\* task started.
C16_PolicyFailsClosed ==
  /\ [][\A i \in Slots : \A answer \in {"reject", "fault"} :
          PolicyFilter(i, answer)
          => /\ calls'[i].pc = "done"
             /\ calls'[i].result = "blocked"
             /\ calls'[i].exit = "policy"
             /\ calls'[i].tasks = NoTasks
             /\ Durable' = Durable
             /\ subObjs' = subObjs]_vars
  /\ [](\A i \in Slots :
          calls[i].exit = "policy"
          => /\ calls[i].pc = "done"
             /\ calls[i].result = "blocked"
             /\ calls[i].tasks = NoTasks)

\* a call has ended at the policy with the outcome blocked
C16_Witness ==
  \E i \in Slots : /\ calls[i].exit = "policy"
                   /\ calls[i].policed
                   /\ calls[i].result = "blocked"
                   /\ calls[i].ev \notin events

\* the call c has gone past verification, the dedup checks and the place
\* of the policy evaluation
pastPolicy(c) ==
  /\ c.pc \notin {"idle", "verify", "exists", "policy"}
  /\ c.exit \notin {"range", "unverified", "encountered", "exists", "existsFault"}

\* C17 as stated: every verified, non-duplicate event of a pubkey other
\* than the operator's has been policy-evaluated before anything further
\* is done with it.
C17_OnlyOperatorSkipsPolicy ==
  \A i \in Slots :
    (pastPolicy(calls[i]) /\ calls[i].ev.pubkey # Conf_pubkey) => calls[i].policed

\* C17 amended: policy evaluation is skipped exactly for events of kind
\* 24133, whoever publishes them: every verified, non-duplicate event of
\* another kind, the operator's included, has been policy-evaluated before
\* it is hydrated, stored or fanned out.
C17_OnlyKind24133SkipsPolicy ==
  \A i \in Slots :
    pastPolicy(calls[i]) => (calls[i].policed <=> calls[i].ev.kind # 24133)

\* a note of the operator has been policy-evaluated and stored, and an
\* event of kind 24133 of another pubkey has reached fan-out unevaluated
C17_Witness ==
  /\ noteAdmin \in events
  /\ \E i \in Slots : /\ calls[i].ev = connectB
                      /\ ~calls[i].policed
                      /\ calls[i].tasks.stream = "ok"

\* the author of the event carries the "disabled" marker
authorDisabled(event) == "disabled" \in getTagSet(userTags(event.pubkey), "n")

\* C18: an event whose hydrated author carries the disabled marker is never
\* stored and never handed to a subscriber; a call for it never starts a
\* task (storing, stats, indexes, derived events, fan-out), and when the
\* call gets as far as the marker it ends there with the outcome blocked.
C18_DisabledIsBlocked ==
  /\ \A e \in events : ~authorDisabled(e)
  /\ \A o \in DOMAIN subObjs : \A e \in subObjs[o].received : ~authorDisabled(e)
  /\ \A i \in Slots :
       LET c == calls[i]
       IN (c.pc # "idle" /\ authorDisabled(c.ev))
          => /\ c.tasks = NoTasks
             /\ (/\ c.pc \notin {"verify", "exists", "policy", "hydrate"}
                 /\ c.exit \notin {"range", "unverified", "encountered", "exists",
                                   "existsFault", "policy", "hydrateFault"})
                => (c.pc = "done" /\ c.exit = "disabled" /\ c.result = "blocked")

\* the note of a disabled author has been blocked after its hydration
C18_Witness ==
  \E i \in Slots : /\ authorDisabled(calls[i].ev)
                   /\ calls[i].policed
                   /\ calls[i].exit = "disabled"
                   /\ calls[i].result = "blocked"

\* C19: an event of an ephemeral kind is never in the event store and its
\* stat diffs are never applied, and no step of a call for such an event
\* changes the event store or a stats table.
C19_EphemeralNeverStored ==
  /\ [](\A e \in events : ~ephemeral(e.kind))
  /\ [](\A i \in Slots : ephemeral(calls[i].ev.kind) => calls[i].ev.id \notin applied)
  /\ [][\A i \in Slots :
          (ephemeral(calls[i].ev.kind) /\ calls'[i] # calls[i]) => Durable' = Durable]_vars

\* an ephemeral event went through fan-out, its storing skipped
C19_Witness ==
  \E i \in Slots : /\ ephemeral(calls[i].ev.kind)
                   /\ calls[i].pc = "done"
                   /\ calls[i].tasks.store = "skip"
                   /\ calls[i].tasks.stream = "ok"
                   /\ calls[i].ev \notin events

\* C20: derived events nest one deep at most: a call entered by
\* generateSetEvents is a call for a kind 30383 event, it was entered by a
\* call that callers made, and it never starts generateSetEvents' signing
\* of a further event.
C20_DerivedDepthOne ==
  \A i \in Slots :
    calls[i].parent # 0
    => /\ calls[i].ev.kind = 30383
       /\ calls[i].tasks.gen \in {"none", "skip"}
       /\ calls[i].awaited => calls[calls[i].parent].parent = 0

\* the event derived from a report has gone through all of handleEvent; it
\* tags the operator itself, and nothing was derived from it
C20_Witness ==
  \E i \in Slots : /\ calls[i].parent # 0
                   /\ calls[i].pc = "done"
                   /\ calls[i].exit = "all"
                   /\ tagsAdmin(calls[i].ev)
                   /\ calls[i].tasks.gen = "skip"
                   /\ calls[i].ev \in events

\* the (socket, id) pairs under which the store holds subscription object o
keysOf(st, o) ==
  {k \in StoreKeys : k[1] \in DOMAIN st /\ k[2] \in DOMAIN st[k[1]] /\ st[k[1]][k[2]] = o}

\* C21: the store holds at most one live subscription per (socket, id): a
\* subscription object is open exactly when the store holds it, and then under
\* one key only; and right after sub(c, id, f) the store holds for (c, id) a
\* new, open subscription owning the filters f, the one it held before closed.
C21_OneLivePerKey ==
  /\ [](\A o \in DOMAIN subObjs :
          /\ Cardinality(keysOf(store, o)) <= 1
          /\ ~subObjs[o].closed <=> keysOf(store, o) # {})
  /\ [][\A k \in StoreKeys, f \in StoreFilterLists :
          StoreSub(k[1], k[2], f) =>
            LET o == store'[k[1]][k[2]]
            IN /\ o = Len(subObjs) + 1
               /\ subObjs'[o].filters = f
               /\ ~subObjs'[o].closed
               /\ \A p \in DOMAIN subObjs :
                    keysOf(store, p) = {k} => subObjs'[p].closed]_vars

\* a subscription was replaced: the first object of (c2, s1) is closed and the
\* store holds a later one with other filters under that key
C21_Witness ==
  /\ subObjs[1].closed
  /\ "c2" \in DOMAIN store /\ "s1" \in DOMAIN store["c2"]
  /\ store["c2"]["s1"] > 1
  /\ subObjs[store["c2"]["s1"]].filters # subObjs[1].filters
  /\ ~subObjs[store["c2"]["s1"]].closed

\* C22: a subscription that leaves the store, replaced by sub or removed by
\* unsub or close, is closed in that step; a closed subscription stays closed
\* and no later matches hands it an event.
C22_ClosedNeverYielded ==
  /\ [][\A o \in DOMAIN subObjs :
          (keysOf(store, o) # {} /\ keysOf(store', o) = {}) => subObjs'[o].closed]_vars
  /\ [][\A o \in DOMAIN subObjs :
          subObjs[o].closed =>
            /\ subObjs'[o].closed
            /\ subObjs'[o].received = subObjs[o].received]_vars

\* the first subscription of (c2, s1) was closed; a later subscription with
\* the same filters was handed followA, the closed one was not
C22_Witness ==
  /\ subObjs[1].closed
  /\ followA \notin subObjs[1].received
  /\ \E o \in DOMAIN subObjs :
       /\ o > 1
       /\ subObjs[o].filters = subObjs[1].filters
       /\ followA \in subObjs[o].received

\* the subscription objects the store holds for socket
ownedBy(st, socket) ==
  IF socket \in DOMAIN st THEN {st[socket][id] : id \in DOMAIN st[socket]} ELSE {}

\* C23: close(c) closes and removes every subscription of socket c and leaves
\* every other socket's subscriptions as they were, held and open; unsub(c, id)
\* closes and removes the subscription (c, id) alone, and changes nothing when
\* the store holds none for (c, id).
C23_OnlyOwnSubscriptions ==
  /\ [][\A c \in {"c1", "c2"} :
          Disconnect(c) =>
            /\ c \notin DOMAIN store'
            /\ \A o \in ownedBy(store, c) : subObjs'[o].closed
            /\ \A d \in DOMAIN store \ {c} : d \in DOMAIN store' /\ store'[d] = store[d]
            /\ \A o \in DOMAIN subObjs \ ownedBy(store, c) : subObjs'[o] = subObjs[o]]_vars
  /\ [][\A k \in StoreKeys :
          Unsubscribe(k[1], k[2]) =>
            IF \E o \in DOMAIN subObjs : k \in keysOf(store, o)
              THEN LET o == store[k[1]][k[2]]
                   IN /\ subObjs'[o].closed
                      /\ k[2] \notin DOMAIN store'[k[1]]
                      /\ \A p \in DOMAIN subObjs \ {o} :
                           subObjs'[p] = subObjs[p] /\ keysOf(store', p) = keysOf(store, p)
              ELSE store' = store /\ subObjs' = subObjs]_vars

\* socket c1 held two subscriptions and was closed: both are closed and the
\* socket is gone, while the subscription of c2 is still held and open
C23_Witness ==
  /\ Len(subObjs) = 3
  /\ "c1" \notin DOMAIN store
  /\ subObjs[2].closed /\ subObjs[3].closed
  /\ subObjs[2].filters # subObjs[3].filters
  /\ keysOf(store, 1) = {<<"c2", "s1">>}
  /\ ~subObjs[1].closed

\* C24: matches(event, data) yields exactly the open subscriptions, of every
\* socket, that have some filter matching the event, each once: a step of
\* matches hands the event to a subscription if and only if it is open and one
\* of its filters matches, so never to one whose filter list is empty; and no
\* subscription is held under two keys, so none is visited twice.
C24_YieldsExactlyMatching ==
  /\ [][\A e \in MatchEvents, u \in BOOLEAN :
          Matches(e, [user |-> u]) =>
            \A o \in DOMAIN subObjs :
              e \notin subObjs[o].received =>
                (e \in subObjs'[o].received
                   <=> /\ ~subObjs[o].closed
                       /\ \E k \in DOMAIN subObjs[o].filters :
                            matchDittoFilter(subObjs[o].filters[k], e, [user |-> u]))]_vars
  /\ [](\A o \in DOMAIN subObjs :
          /\ Cardinality(keysOf(store, o)) <= 1
          /\ subObjs[o].filters = <<>> => subObjs[o].received = {})

\* followA was handed to a subscription on each socket, matching by the first
\* filter only, and not to the older open subscription without filters
C24_Witness ==
  /\ followA \in subObjs[1].received
  /\ \E o, p \in DOMAIN subObjs :
       /\ keysOf(store, o) = {<<"c1", "s2">>}
       /\ subObjs[o].filters = <<kind3, localKind1>>
       /\ followA \in subObjs[o].received
       /\ keysOf(store, p) = {<<"c1", "s1">>}
       /\ p < o
       /\ subObjs[p].filters = <<>>
       /\ subObjs[p].received = {}

\* the filters of the subscription objects created so far
filtersInUse == UNION {Range(subObjs[o].filters) : o \in DOMAIN subObjs}

\* C25: a filter with local set matches an event only if the event's pubkey is
\* the operator's or the data mark the author as a local user: otherwise
\* matchDittoFilter is false whatever the filter's other keys, and matches
\* hands the event to no subscription whose filters are all local.
C25_LocalOnlyOperatorOrUser ==
  /\ [](\A f \in filtersInUse, e \in MatchEvents, u \in BOOLEAN :
          (f.local /\ matchDittoFilter(f, e, [user |-> u]))
            => (e.pubkey = Conf_pubkey \/ u))
  /\ [][\A e \in MatchEvents, u \in BOOLEAN :
          (Matches(e, [user |-> u]) /\ e.pubkey # Conf_pubkey /\ ~u) =>
            \A o \in DOMAIN subObjs :
              (\A k \in DOMAIN subObjs[o].filters : subObjs[o].filters[k].local)
                => subObjs'[o].received = subObjs[o].received]_vars

\* noteA was matched without its author marked as a local user: a later
\* subscription for kind 1 of A was handed it, the open subscription with the
\* filter {kinds: [1], local} created before was not
C25_Witness ==
  \E o, p \in DOMAIN subObjs :
    /\ o < p
    /\ localKind1 \in Range(subObjs[o].filters)
    /\ ~subObjs[o].closed
    /\ subObjs[o].received = {}
    /\ subObjs[p].filters = <<kind1ofA>>
    /\ subObjs[p].received = {noteA}

\* C26: a filter {kinds: K, authors: A} without local matches an event exactly
\* when the event's kind is in K and its pubkey is in A, and matches hands an
\* event to an open subscription with that one filter exactly in that case.
C26_KindsAndAuthors ==
  /\ [](\A f \in filtersInUse, e \in MatchEvents, u \in BOOLEAN :
          (f.kinds # <<>> /\ f.authors # <<>> /\ ~f.local) =>
            (matchDittoFilter(f, e, [user |-> u])
               <=> (e.kind \in f.kinds[1] /\ e.pubkey \in f.authors[1])))
  /\ [][\A e \in MatchEvents, u \in BOOLEAN :
          Matches(e, [user |-> u]) =>
            \A o \in DOMAIN subObjs :
              (subObjs[o].filters = <<kind1ofA>> /\ ~subObjs[o].closed
                 /\ e \notin subObjs[o].received) =>
                (e \in subObjs'[o].received <=> (e.kind = 1 /\ e.pubkey = "A"))]_vars

\* an open subscription with the one filter {kinds: [1], authors: [A]} was
\* handed noteA, of kind 1 and author A
C26_Witness ==
  \E o \in DOMAIN subObjs :
    /\ subObjs[o].filters = <<kind1ofA>>
    /\ ~subObjs[o].closed
    /\ subObjs[o].received = {noteA}

\* the relations attached to the hydrated event h
relationsOf(h) == Range(h.repost) \cup Range(h.quote)

\* the stored event that event reposts (kind 6, first "e" tag) or quotes
\* (kind 1, "q" tag), if the store holds it
targetsOf(event) ==
  LET name == IF event.kind = 6 THEN "e" ELSE IF event.kind = 1 THEN "q" ELSE ""
  IN {e \in events :
        \E j \in DOMAIN event.tags :
          /\ event.tags[j][1] = name
          /\ \A i \in 1..(j - 1) : event.tags[i][1] # name
          /\ e.id = event.tags[j][2]}

\* the author attached to h is the stored profile of its pubkey, if there is one
authorAttached(h) ==
  /\ h.author # <<>> <=> \E e \in events : e.kind = 0 /\ e.pubkey = h.event.pubkey
  /\ \A a \in Range(h.author) : a \in events /\ a.kind = 0 /\ a.pubkey = h.event.pubkey

\* C27: hydration resolves two levels and no more.  The hydrated event has its
\* author and its stored repost or quote target; that target has its author
\* and its own stored repost or quote target; and the latter has its author
\* and no other relation, whatever it refers to.  The result is finite also
\* when two stored notes quote each other.
C27_TwoLevels ==
  \A k \in DOMAIN hydrated :
    LET h == hydrated[k]
    IN /\ authorAttached(h)
       /\ {r.event : r \in relationsOf(h)} = targetsOf(h.event)
       /\ \A r \in relationsOf(h) :
            /\ authorAttached(r)
            /\ {t.event : t \in relationsOf(r)} = targetsOf(r.event)
            /\ \A t \in relationsOf(r) :
                 /\ authorAttached(t)
                 /\ relationsOf(t) = {}

\* the whole chain and both cycle notes are stored; hRepost was hydrated down
\* to hNote, whose quote of the stored hDeep is not attached, and hCycA down to
\* itself as the quote of hCycB, and no further
C27_Witness ==
  /\ HydrateEvents \subseteq events
  /\ Len(hydrated) = 2
  /\ hydrated[1].event = hRepost
  /\ hydrated[1].author = <<metaA>>
  /\ hydrated[1].repost[1].event = hQuote
  /\ hydrated[1].repost[1].author = <<metaB>>
  /\ hydrated[1].repost[1].quote[1].event = hNote
  /\ hydrated[1].repost[1].quote[1].author = <<metaA>>
  /\ hydrated[1].repost[1].quote[1].quote = <<>>
  /\ hydrated[2].event = hCycA
  /\ hydrated[2].quote[1].event = hCycB
  /\ hydrated[2].quote[1].quote[1].event = hCycA
  /\ hydrated[2].quote[1].quote[1].quote = <<>>

\* C28: encounterEvent reports a hit exactly when the id is in the cache at
\* the time of the call, and the id is in the cache after the call whatever it
\* reported: the call of a verified event ends as already encountered at its
\* cache check if and only if the cache held the id, and holds it afterwards.
C28_TestAndSet ==
  [][\A i \in Slots :
       (Verify(i) /\ calls[i].ev.sig) =>
         /\ calls'[i].exit = "encountered" <=> calls[i].ev.id \in Range(encounters)
         /\ calls'[i].pc = "exists" <=> calls[i].ev.id \notin Range(encounters)
         /\ calls[i].ev.id \in Range(encounters')]_vars

\* the second of two calls with the same event, nothing evicted in between,
\* found the id in the cache, and the cache still holds it
C28_Witness ==
  /\ ncalls = 2
  /\ \E i \in Slots : /\ calls[i].exit = "encountered"
                      /\ calls[i].cachedAtCheck
                      /\ calls[i].ev = almostFutureA
                      /\ calls[i].ev.id \in Range(encounters)

\* C29 as stated: an event whose call ended with an error can be submitted
\* again: when the later call for it meets no fault, the event is stored.
C29_FailedCanBeResubmitted ==
  \A i, j \in Slots :
    (/\ i # j
     /\ calls[i].pc = "done" /\ calls[i].result = "error"
     /\ calls[j].parent = 0
     /\ calls[j].ev = calls[i].ev
     /\ calls[j].pc = "done" /\ calls[j].result = "ok")
      => calls[j].ev \in events

\* C30 as stated: when the fan-out of an ephemeral event fails, the call ends
\* with the outcome invalid.
C30_EphemeralFanoutFailureIsInvalid ==
  \A i \in Slots :
    LET c == calls[i]
    IN (c.pc = "done" /\ ephemeral(c.ev.kind) /\ c.tasks.stream = "fail")
         => c.result = "invalid"

\* the stored follow lists of pubkey with the greatest created_at
currentFollowLists(pubkey) ==
  LET S == {e \in events : e.kind = 3 /\ e.pubkey = pubkey}
  IN {e \in S : \A f \in S : f.created_at <= e.created_at}

\* C31 as stated: whatever the order in which an author's follow lists were
\* processed, following_count is the number of distinct "p" tags of the
\* processed follow list with the greatest created_at.
C31_FollowingCountOfLatestList ==
  \A p \in Pubkeys : \A e \in currentFollowLists(p) :
    AuthorRow(author_stats, p).following_count = Cardinality(getTagSet(e.tags, "p"))

\* the authors whose current follow list names pubkey
followersOf(pubkey) ==
  {a \in Pubkeys : \E e \in currentFollowLists(a) : pubkey \in getTagSet(e.tags, "p")}

\* C32 as stated: a follow list processed with no fault in the store, an
\* author's first one included, has its stats update completed, and
\* followers_count of every pubkey is the number of authors whose current
\* follow list contains it.
C32_FollowersCountOfCurrentLists ==
  /\ \A i \in Slots :
       (calls[i].ev.kind = 3 /\ calls[i].storeFault = "none"
          /\ calls[i].tasks.store # "pending" /\ calls[i].pc = "done"
          /\ calls[i].exit = "all")
       => calls[i].tasks.store = "ok"
  /\ \A p \in Pubkeys :
       AuthorRow(author_stats, p).followers_count = Cardinality(followersOf(p))

\* C33: when invocations for the same event overlap, or the event comes
\* again after its id left the cache, the event is stored once and its stat
\* deltas are applied once: every counter is the number of stored events
\* that count towards it.
C33_StoredAndCountedOnce ==
  /\ \A e, f \in events : e.id = f.id => e = f
  /\ \A p \in Pubkeys :
       AuthorRow(author_stats, p).notes_count
         = Cardinality({e \in events : e.kind = 1 /\ e.pubkey = p})
  /\ \A id \in {e.id : e \in RaceSubmitted} :
       EventRow(event_stats, id).replies_count
         = Cardinality({e \in events : e.kind = 1 /\ inReplyToId(e) = id})

\* two invocations for noteA both reached the store, the second after the
\* id was evicted from the cache; the insert of the second was refused
C33_Witness ==
  \E i, j \in Slots :
    /\ i # j
    /\ calls[i].ev = noteA /\ calls[j].ev = noteA
    /\ calls[i].tasks.store = "ok"
    /\ calls[j].tasks.store = "fail" /\ calls[j].storeFault = "none"
    /\ noteA \in events
    /\ AuthorRow(author_stats, "A").notes_count = 1

\* the profiles of pubkey whose lookup was answered with the pubkey and
\* whose upsert has been executed
indexedProfiles(pubkey) ==
  {calls[i].ev : i \in {k \in Slots : /\ calls[k].tasks.meta = "ok"
                                      /\ calls[k].ev.pubkey = pubkey
                                      /\ nip05Owner(calls[k].ev.content.nip05) = pubkey}}

\* C34: whatever the order of arrival, the pubkey_domains row of a pubkey
\* holds the domain and created_at of the verified profile with the greatest
\* created_at; no step lowers last_updated_at, and a profile whose created_at
\* is not greater than the stored last_updated_at leaves the row as it is.
C34_DomainLastWriteWins ==
  /\ [](\A p \in Pubkeys :
          LET S == indexedProfiles(p)
          IN S # {} =>
               /\ p \in DOMAIN pubkey_domains
               /\ \E e \in S :
                    /\ \A f \in S : f.created_at <= e.created_at
                    /\ pubkey_domains[p] = [domain |-> nip05Domain(e.content.nip05),
                                            last_updated_at |-> e.created_at])
  /\ [][\A p \in DOMAIN pubkey_domains :
          /\ p \in DOMAIN pubkey_domains'
          /\ pubkey_domains'[p].last_updated_at >= pubkey_domains[p].last_updated_at
          /\ \A i \in Slots :
               (/\ calls[i].tasks.meta = "pending"
                /\ calls'[i].tasks.meta = "ok"
                /\ calls[i].ev.pubkey = p
                /\ calls[i].ev.created_at <= pubkey_domains[p].last_updated_at)
               => pubkey_domains'[p] = pubkey_domains[p]]_vars

\* a newer and an older profile of A have both been indexed and the row is
\* that of the newer one
C34_Witness ==
  /\ indexedProfiles("A") = {metaA2, metaOldA}
  /\ calls[1].ev = metaA2 /\ calls[2].ev = metaOldA
  /\ pubkey_domains["A"] = [domain |-> "y.org", last_updated_at |-> Now0 + 1]

\* C35 as stated: in every reachable state every counter of author_stats and
\* of event_stats is zero or more.
C35_CountersNonNegative ==
  /\ \A p \in DOMAIN author_stats :
       /\ author_stats[p].followers_count >= 0
       /\ author_stats[p].following_count >= 0
       /\ author_stats[p].notes_count >= 0
  /\ \A id \in DOMAIN event_stats :
       /\ event_stats[id].replies_count >= 0
       /\ event_stats[id].reposts_count >= 0
       /\ event_stats[id].reactions_count >= 0

====
